---- MODULE Spec2Model ----
(***************************************************************************)
(* Model of the Sharp IoT device status protocol core:                     *)
(*   - DeviceStatusCommand.build_payload and the command/operation model   *)
(*     (sharp_devices/device_control.py),                                  *)
(*   - SharpOperations.execute_operation / execute_commands                *)
(*     (sharp_devices/operations.py).                                      *)
(* Strings that the code indexes (headers, values, payloads) are modelled  *)
(* as sequences of one-character strings.                                  *)
(***************************************************************************)
EXTENDS Integers, Sequences, FiniteSets, TLC

VARIABLES
    callers,    \* the callers that run execute_operation / execute_commands
    ex,         \* ex[c]: the local state of caller c's execution
    cpc,        \* codec harness: position ("input", "encoded", "decoded")
    cHeader,    \* codec harness: header given to build_payload
    cPosition,  \* codec harness: get_payload_position()
    cValue,     \* codec harness: get_payload_value()
    cResult,    \* codec harness: what build_payload produced
    cDecoded,   \* codec harness: the slice read back from the payload
    dMode,      \* decoder harness: which decoder runs ("quality", "f3", "api")
    dpc,        \* decoder harness: position ("input", "done")
    qIn,        \* sensor reading given to QualityLevel.parse
    qOut,       \* the level QualityLevel.parse returned
    f3In,       \* string given to F3Property.from_hex, and where it came from
    f3Out,      \* what F3Property.from_hex produced
    apiIn,      \* response given to DeviceProperties.from_api_response
    apiOut,     \* what DeviceProperties.from_api_response produced
    co,         \* the coordinator: self.devices, self.data and the running call
    au          \* the auth server: the sessions dictionary and the last reply

engineVars == <<callers, ex>>
codecVars == <<cpc, cHeader, cPosition, cValue, cResult, cDecoded>>
decoderVars == <<dMode, dpc, qIn, qOut, f3In, f3Out, apiIn, apiOut>>
serviceVars == <<co, au>>
vars == <<callers, ex, cpc, cHeader, cPosition, cValue, cResult, cDecoded,
          dMode, dpc, qIn, qOut, f3In, f3Out, apiIn, apiOut, co, au>>

-----------------------------------------------------------------------------
(* Program constants *)

\* len(header) must be 8
HeaderLen == 8
\* payload_chars = ['0'] * 46
FieldAreaLen == 46
\* for i in range(10)
MaxPolls == 10

(* Bounds of the model *)

\* longest command list given to execute_commands / OperationList
MaxCommands == 2
\* longest value given to build_payload in the codec harness
MaxValueLen == 2
\* largest position given to build_payload in the codec harness (from -1)
MaxPosition == 47

\* Python's None (a missing key read with dict.get)
Null == "<None>"

-----------------------------------------------------------------------------
(* device_control.py: DeviceStatusCommand.build_payload *)

BuildOk(payload) == [ok |-> TRUE, payload |-> payload, error |-> ""]
BuildFail(error) == [ok |-> FALSE, payload |-> <<>>, error |-> error]

\* Mutant of FieldArea: the value is written one character too far right
FieldArea_shifted(position, value) ==
    [i \in 1..FieldAreaLen |->
        IF (i - 1) > position /\ (i - 1) <= position + Len(value)
        THEN value[i - position - 1]
        ELSE "0"]

\* Mutant of FieldArea: the field area is one character short
FieldArea_short(position, value) ==
    [i \in 1..(FieldAreaLen - 1) |->
        IF (i - 1) >= position /\ (i - 1) < position + Len(value)
        THEN value[i - position]
        ELSE "0"]

\* lines 206, 220-221: '0' * 46 with value written at position..position+len-1
FieldArea(position, value) ==
    [i \in 1..FieldAreaLen |->
        IF (i - 1) >= position /\ (i - 1) < position + Len(value)
        THEN value[i - position]
        ELSE "0"]

\* Mutant of build_payload: the position check accepts position 46
build_payload_pos46(header, position, value) ==
    IF Len(header) # HeaderLen
    THEN BuildFail("header")
    ELSE IF position < 0 \/ position > FieldAreaLen
    THEN BuildFail("position")
    ELSE IF position + Len(value) > FieldAreaLen
    THEN BuildFail("overflow")
    ELSE BuildOk(header \o FieldArea(position, value))

build_payload(header, position, value) ==
    IF Len(header) # HeaderLen
    THEN BuildFail("header")
    ELSE IF position < 0 \/ position >= FieldAreaLen
    THEN BuildFail("position")
    ELSE IF position + Len(value) > FieldAreaLen
    THEN BuildFail("overflow")
    ELSE BuildOk(header \o FieldArea(position, value))

\* Python slice s[a:b] for 0 <= a, 0 <= b (indices clamp to the length)
Slice(s, a, b) ==
    LET hi == IF b < Len(s) THEN b ELSE Len(s)
    IN  IF a >= hi THEN <<>> ELSE SubSeq(s, a + 1, hi)

\* device_properties.py line 85: payload = hex_string[8:]
SkipHeader(blob) == Slice(blob, HeaderLen, Len(blob))

\* device_properties.py lines 89-93: payload[position:position+width]
decodeFixedField(blob, position, width) ==
    Slice(SkipHeader(blob), position, position + width)

-----------------------------------------------------------------------------
(* Codec harness: build_payload applied to inputs drawn from bounded sets *)

Chars == {"0", "F", "1"}

StringsUpTo(n) == UNION {[1..k -> Chars] : k \in 0..n}

CodecHeaders ==
    { <<"0","1","0","0","0","0","0","0">>,
      <<"0","0","0","2","0","0","0","0">>,
      <<"0","0","0","2","0","0","0">>,
      <<"0","0","0","2","0","0","0","0","0">>,
      <<>> }

CodecPositions == (-1)..MaxPosition

CodecValues == StringsUpTo(MaxValueLen)

CodecIdle ==
    /\ cpc = "off"
    /\ cHeader = <<>>
    /\ cPosition = 0
    /\ cValue = <<>>
    /\ cResult = BuildFail("")
    /\ cDecoded = <<>>

CodecInit ==
    /\ cpc = "input"
    /\ cHeader \in CodecHeaders
    /\ cPosition \in CodecPositions
    /\ cValue \in CodecValues
    /\ cResult = BuildFail("")
    /\ cDecoded = <<>>

Encode ==
    /\ cpc = "input"
    /\ cResult' = build_payload(cHeader, cPosition, cValue)
    /\ cpc' = "encoded"
    /\ UNCHANGED <<cHeader, cPosition, cValue, cDecoded, engineVars, decoderVars, serviceVars>>

Decode ==
    /\ cpc = "encoded"
    /\ cResult.ok
    /\ cDecoded' = decodeFixedField(cResult.payload, cPosition, Len(cValue))
    /\ cpc' = "decoded"
    /\ UNCHANGED <<cHeader, cPosition, cValue, cResult, engineVars, decoderVars, serviceVars>>

CodecNext == Encode \/ Decode

-----------------------------------------------------------------------------
(* device_control.py: the command / operation model *)

SingleCommand(status_code, value) ==
    [cls |-> "SingleCommand", statusCode |-> status_code,
     header |-> <<>>, position |-> 0, value |-> value]

DeviceStatusCommand(header, position, value) ==
    [cls |-> "DeviceStatusCommand", statusCode |-> "F3",
     header |-> header, position |-> position, value |-> value]

\* sharp_core/states.py: PowerState, OperatingMode
PowerStateValue(state) == IF state = "ON" THEN <<"F","F">> ELSE <<"0","0">>
OperatingModeAuto == <<"1","0">>

ChangeModeCommand(mode) ==
    DeviceStatusCommand(<<"0","1","0","0","0","0","0","0">>, 0, mode)

PowerStateCommand(state) ==
    DeviceStatusCommand(<<"0","0","0","2","0","0","0","0">>, 18,
                        PowerStateValue(state))

PowerCommand(state) ==
    SingleCommand("80", IF state = "ON" THEN <<"3","0">> ELSE <<"3","1">>)

StatusOk(payload) == [ok |-> TRUE, payload |-> payload]
StatusFail == [ok |-> FALSE, payload |-> [statusCode |-> "", valueType |-> "", code |-> <<>>]]

\* SingleCommand.get_status_payload / BinaryCommand.get_status_payload
get_status_payload(cmd) ==
    IF cmd.cls = "SingleCommand"
    THEN StatusOk([statusCode |-> cmd.statusCode, valueType |-> "valueSingle",
                   code |-> cmd.value])
    ELSE LET b == build_payload(cmd.header, cmd.position, cmd.value)
         IN  IF b.ok
             THEN StatusOk([statusCode |-> cmd.statusCode,
                            valueType |-> "valueBinary", code |-> b.payload])
             ELSE StatusFail

\* Operations: a Command used as an Operation, an OperationList (PowerOperation
\* is one), and RefreshStateOperation.
CommandOperation(cmd) == [kind |-> "Command", commands |-> <<cmd>>]
RefreshStateOperation == [kind |-> "RefreshStateOperation", commands |-> <<>>]

ListOk(list) == [ok |-> TRUE, list |-> list]
ListFail == [ok |-> FALSE, list |-> <<>>]

\* Mutant of OperationList: an empty command list is accepted
OperationList_allowEmpty(commands) ==
    [ok |-> TRUE, op |-> [kind |-> "OperationList", commands |-> commands]]

\* OperationList.__init__: raises ValueError on an empty command list
OperationList(commands) ==
    IF commands = <<>>
    THEN [ok |-> FALSE, op |-> [kind |-> "OperationList", commands |-> <<>>]]
    ELSE [ok |-> TRUE, op |-> [kind |-> "OperationList", commands |-> commands]]

\* Mutant of PowerOperation: the two commands in the other order
PowerOperation_swapped(state) ==
    OperationList(<<PowerCommand(state), PowerStateCommand(state)>>).op

PowerOperation(state) ==
    OperationList(<<PowerStateCommand(state), PowerCommand(state)>>).op

\* Mutant of get_status_list: a payload that cannot be built is left out
\* instead of raising
get_status_list_lenient(op) ==
    LET RECURSIVE Keep(_)
        Keep(cs) ==
            IF cs = <<>> THEN <<>>
            ELSE LET p == get_status_payload(Head(cs))
                 IN  IF p.ok THEN <<p.payload>> \o Keep(Tail(cs))
                     ELSE Keep(Tail(cs))
    IN  ListOk(Keep(op.commands))

\* Mutant of get_status_list: the payloads come out in reverse order
get_status_list_reversed(op) ==
    IF op.kind = "RefreshStateOperation"
    THEN ListOk(<<>>)
    ELSE LET n == Len(op.commands)
             ps == [i \in 1..n |-> get_status_payload(op.commands[n + 1 - i])]
         IN  IF \A i \in 1..n : ps[i].ok
             THEN ListOk([i \in 1..n |-> ps[i].payload])
             ELSE ListFail

\* Command.get_status_list, OperationList.get_status_list,
\* RefreshStateOperation.get_status_list: a payload that cannot be built
\* raises, and the exception leaves get_status_list
get_status_list(op) ==
    IF op.kind = "RefreshStateOperation"
    THEN ListOk(<<>>)
    ELSE LET ps == [i \in 1..Len(op.commands) |-> get_status_payload(op.commands[i])]
         IN  IF \A i \in 1..Len(ps) : ps[i].ok
             THEN ListOk([i \in 1..Len(ps) |-> ps[i].payload])
             ELSE ListFail

-----------------------------------------------------------------------------
(* sharp_core/states.py: the enumerations and the bucketing functions *)

\* An enumeration is the set of its members, each a name and a value
PowerState == {[name |-> "OFF", value |-> <<"0","0">>],
               [name |-> "ON", value |-> <<"F","F">>]}

OperatingMode ==
    {[name |-> "OFF", value |-> <<"0","0">>],
     [name |-> "LOW", value |-> <<"1","4">>],
     [name |-> "MED", value |-> <<"1","5">>],
     [name |-> "MAX", value |-> <<"1","6">>],
     [name |-> "AUTO", value |-> <<"1","0">>],
     [name |-> "POLLEN", value |-> <<"1","3">>],
     [name |-> "ION_SHOWER", value |-> <<"4","0">>],
     [name |-> "SLEEP", value |-> <<"1","1">>],
     [name |-> "SHARP_LIFE_AIR", value |-> <<"2","0">>]}

HumidificationState == {[name |-> "OFF", value |-> <<"0","0">>],
                        [name |-> "ON", value |-> <<"F","F">>]}

LEDBrightnessState == {[name |-> "OFF", value |-> <<"0","0">>],
                       [name |-> "DIM", value |-> <<"1","0">>],
                       [name |-> "AUTO", value |-> <<"F","0">>]}

ChildLockState == {[name |-> "OFF", value |-> <<"0","0">>],
                   [name |-> "ON", value |-> <<"F","F">>]}

\* Enum(value): the member with that value, or ValueError

EnumByValue(enum, value) ==
    IF \E m \in enum : m.value = value
    THEN [ok |-> TRUE, name |-> (CHOOSE m \in enum : m.value = value).name]
    ELSE [ok |-> FALSE, name |-> ""]

\* Mutant of QualityLevel_parse: 75 falls into VERY_HIGH
QualityLevel_parse_ge75(int_value) ==
    IF int_value >= 75 THEN "VERY_HIGH"
    ELSE IF 56 <= int_value /\ int_value <= 75 THEN "HIGH"
    ELSE IF 36 <= int_value /\ int_value < 56 THEN "MEDIUM"
    ELSE IF 16 <= int_value /\ int_value < 36 THEN "LOW"
    ELSE "CLEAN"

\* QualityLevel.parse
QualityLevel_parse(int_value) ==
    IF int_value > 75 THEN "VERY_HIGH"
    ELSE IF 56 <= int_value /\ int_value <= 75 THEN "HIGH"
    ELSE IF 36 <= int_value /\ int_value < 56 THEN "MEDIUM"
    ELSE IF 16 <= int_value /\ int_value < 36 THEN "LOW"
    ELSE "CLEAN"

\* WaterContainerState.parse
WaterContainerState_parse(int_value) ==
    IF int_value = 0 THEN "UNKNOWN"
    ELSE IF int_value = 1 THEN "FULL"
    ELSE IF int_value = 2 THEN "EMPTY"
    ELSE "UNKNOWN"

-----------------------------------------------------------------------------
(* device_control.py: the remaining F3 commands *)

HumidificationCommand(state) ==
    DeviceStatusCommand(<<"0","0","0","8","0","0","0","0">>, 22, state)

LEDBrightnessCommand(state) ==
    DeviceStatusCommand(<<"0","0","0","0","4","0","0","0">>, 44, state)

ChildLockCommand(state) ==
    DeviceStatusCommand(<<"0","0","4","0","0","0","0","0">>, 28, state)

\* BinaryCommand.get_binary_payload: build_payload of the command
get_binary_payload(cmd) == build_payload(cmd.header, cmd.position, cmd.value)

-----------------------------------------------------------------------------
(* device_properties.py: the property decoder *)

\* str.strip(): characters Python takes as whitespace
Whitespace == {" ", "\n"}

RECURSIVE LStrip(_)
LStrip(s) ==
    IF s # <<>> /\ Head(s) \in Whitespace THEN LStrip(Tail(s)) ELSE s

RECURSIVE RStrip(_)
RStrip(s) ==
    IF s # <<>> /\ s[Len(s)] \in Whitespace
    THEN RStrip(SubSeq(s, 1, Len(s) - 1))
    ELSE s

\* Mutant of Strip: nothing is stripped
Strip_none(s) == s

\* hex_string.strip()
Strip(s) == RStrip(LStrip(s))

HexDigits == <<"0","1","2","3","4","5","6","7","8","9","A","B","C","D","E","F">>
LowerHexDigits == <<"0","1","2","3","4","5","6","7","8","9","a","b","c","d","e","f">>

IsHex(ch) == \E k \in 1..16 : HexDigits[k] = ch \/ LowerHexDigits[k] = ch

HexVal(ch) == (CHOOSE k \in 1..16 : HexDigits[k] = ch \/ LowerHexDigits[k] = ch) - 1


\* bytes.fromhex: two hex digits per byte, whitespace between bytes skipped,
\* ValueError on anything else
RECURSIVE fromhex(_)
fromhex(s) ==
    IF s = <<>> THEN [ok |-> TRUE, data |-> <<>>]
    ELSE IF Head(s) \in Whitespace THEN fromhex(Tail(s))
    ELSE IF Len(s) < 2 \/ ~IsHex(s[1]) \/ ~IsHex(s[2]) THEN [ok |-> FALSE, data |-> <<>>]
    ELSE LET rest == fromhex(SubSeq(s, 3, Len(s)))
         IN  IF rest.ok
             THEN [ok |-> TRUE,
                   data |-> <<16 * HexVal(s[1]) + HexVal(s[2])>> \o rest.data]
             ELSE [ok |-> FALSE, data |-> <<>>]

\* int.from_bytes(data[a:b], 'big') for b = a + 1: 0 on an empty slice
ByteAt(data, a) ==
    LET sl == Slice(data, a, a + 1)
    IN  IF sl = <<>> THEN 0 ELSE sl[1]

\* int.from_bytes(data[a:a+2], 'little')
LittleEndian2(data, a) ==
    LET sl == Slice(data, a, a + 2)
    IN  IF sl = <<>> THEN 0
        ELSE IF Len(sl) = 1 THEN sl[1]
        ELSE sl[1] + 256 * sl[2]

NoF1 == [present |-> FALSE, temperature |-> 0, humidity |-> 0, pm25_level |-> 0]
NoF2 == [present |-> FALSE, air_quality |-> "", dust_level |-> "",
         odor_level |-> "", water_container |-> ""]
NoF3 == [present |-> FALSE, operating_mode |-> "", humidification |-> "",
         power |-> "", child_lock |-> "", led_brightness |-> ""]

\* F1Property.from_hex
F1_from_hex(hex_string) ==
    LET b == fromhex(Strip(hex_string))
    IN  IF ~b.ok THEN [ok |-> FALSE, error |-> "hex", value |-> NoF1]
        ELSE [ok |-> TRUE, error |-> "",
              value |-> [present |-> TRUE,
                         temperature |-> ByteAt(b.data, 3),
                         humidity |-> ByteAt(b.data, 4),
                         pm25_level |-> LittleEndian2(b.data, 28)]]

\* F2Property.from_hex
F2_from_hex(hex_string) ==
    LET b == fromhex(Strip(hex_string))
    IN  IF ~b.ok THEN [ok |-> FALSE, error |-> "hex", value |-> NoF2]
        ELSE [ok |-> TRUE, error |-> "",
              value |-> [present |-> TRUE,
                         odor_level |-> QualityLevel_parse(ByteAt(b.data, 14)),
                         dust_level |-> QualityLevel_parse(ByteAt(b.data, 15)),
                         air_quality |-> QualityLevel_parse(ByteAt(b.data, 17)),
                         water_container |->
                             WaterContainerState_parse(ByteAt(b.data, 18))]]

\* The five enumeration lookups of lines 88-94, child lock read at lockAt
F3Fields(payload, lockAt) ==
    LET mode == EnumByValue(OperatingMode, Slice(payload, 0, 2))
        hum == EnumByValue(HumidificationState, Slice(payload, 22, 24))
        pwr == EnumByValue(PowerState, Slice(payload, 18, 20))
        lock == EnumByValue(ChildLockState, Slice(payload, lockAt, lockAt + 2))
        led == EnumByValue(LEDBrightnessState, Slice(payload, 44, 46))
    IN  IF mode.ok /\ hum.ok /\ pwr.ok /\ lock.ok /\ led.ok
        THEN [ok |-> TRUE, error |-> "",
              value |-> [present |-> TRUE, operating_mode |-> mode.name,
                         humidification |-> hum.name, power |-> pwr.name,
                         child_lock |-> lock.name, led_brightness |-> led.name]]
        ELSE [ok |-> FALSE, error |-> "enum", value |-> NoF3]

\* Mutant of F3Parse: child lock is read at position 30, as the comment of
\* line 92 says
F3Parse_lock30(payload) == F3Fields(payload, 30)

\* lines 88-94: payload[0:2], [22:24], [18:20], [28:30], [44:46]
F3Parse(payload) == F3Fields(payload, 28)

\* F3Property.from_hex
F3_from_hex(hex_string) ==
    LET s == Strip(hex_string)
    IN  IF Len(s) # 54
        THEN [ok |-> FALSE, error |-> "length", value |-> NoF3]
        ELSE F3Parse(SkipHeader(s))

\* Mutant of Lower: the status code is compared as it is
Lower_identity(s) == s

\* str.lower() on the status codes of the model
Lower(s) ==
    CASE s = "F1" -> "f1"
      [] s = "F2" -> "f2"
      [] s = "F3" -> "f3"
      [] s = "E1" -> "e1"
      [] OTHER -> s

NoSnapshot == [ok |-> FALSE, f1 |-> NoF1, f2 |-> NoF2, f3 |-> NoF3]
EmptySnapshot == [ok |-> TRUE, f1 |-> NoF1, f2 |-> NoF2, f3 |-> NoF3]

\* status.get('statusCode', '').lower()
StatusCodeOf(status) ==
    Lower(IF status.statusCode = Null THEN "" ELSE status.statusCode)

\* status.get('valueBinary', {}).get('code', '')
CodeOf(status) == IF status.hasCode THEN status.code ELSE <<>>

\* Mutant of DecodeStatus: the binary value of an entry with any other status
\* code must be valid hex
DecodeStatus_strict(acc, status) ==
    LET status_code == StatusCodeOf(status)
        f1 == F1_from_hex(CodeOf(status))
        f2 == F2_from_hex(CodeOf(status))
        f3 == F3_from_hex(CodeOf(status))
    IN  IF status_code = "f1"
        THEN IF f1.ok THEN [acc EXCEPT !.f1 = f1.value] ELSE NoSnapshot
        ELSE IF status_code = "f2"
        THEN IF f2.ok THEN [acc EXCEPT !.f2 = f2.value] ELSE NoSnapshot
        ELSE IF status_code = "f3"
        THEN IF f3.ok THEN [acc EXCEPT !.f3 = f3.value] ELSE NoSnapshot
        ELSE IF fromhex(CodeOf(status)).ok THEN acc ELSE NoSnapshot

\* Mutant of DecodeStatus: a sub-property already decoded is kept
DecodeStatus_firstWins(acc, status) ==
    LET status_code == StatusCodeOf(status)
        f1 == F1_from_hex(CodeOf(status))
        f2 == F2_from_hex(CodeOf(status))
        f3 == F3_from_hex(CodeOf(status))
    IN  IF status_code = "f1"
        THEN IF ~f1.ok THEN NoSnapshot
             ELSE IF acc.f1.present THEN acc ELSE [acc EXCEPT !.f1 = f1.value]
        ELSE IF status_code = "f2"
        THEN IF ~f2.ok THEN NoSnapshot
             ELSE IF acc.f2.present THEN acc ELSE [acc EXCEPT !.f2 = f2.value]
        ELSE IF status_code = "f3"
        THEN IF ~f3.ok THEN NoSnapshot
             ELSE IF acc.f3.present THEN acc ELSE [acc EXCEPT !.f3 = f3.value]
        ELSE acc

\* lines 123-129: one iteration of the loop over the status list; an
\* exception of from_hex leaves from_api_response
DecodeStatus(acc, status) ==
    LET status_code == StatusCodeOf(status)
        f1 == F1_from_hex(CodeOf(status))
        f2 == F2_from_hex(CodeOf(status))
        f3 == F3_from_hex(CodeOf(status))
    IN  IF status_code = "f1"
        THEN IF f1.ok THEN [acc EXCEPT !.f1 = f1.value] ELSE NoSnapshot
        ELSE IF status_code = "f2"
        THEN IF f2.ok THEN [acc EXCEPT !.f2 = f2.value] ELSE NoSnapshot
        ELSE IF status_code = "f3"
        THEN IF f3.ok THEN [acc EXCEPT !.f3 = f3.value] ELSE NoSnapshot
        ELSE acc

RECURSIVE DecodeAll(_, _)
DecodeAll(acc, status_list) ==
    IF status_list = <<>> \/ ~acc.ok THEN acc
    ELSE DecodeAll(DecodeStatus(acc, Head(status_list)), Tail(status_list))

\* DeviceProperties.from_api_response: device_property.get('status', [])
from_api_response(response) ==
    DecodeAll(EmptySnapshot,
              IF response.hasStatus THEN response.status ELSE <<>>)

-----------------------------------------------------------------------------
(* Decoder harness: the decoders applied to inputs drawn from bounded sets *)

\* longest status list of a property response
MaxStatusEntries == 2
\* largest sensor reading given to QualityLevel.parse (from -2)
MaxReading == 80

HexBlob(len, marks) ==
    [i \in 1..len |-> IF i \in DOMAIN marks THEN marks[i] ELSE "0"]

\* 30 bytes: temperature 0x17 at byte 3, humidity 0x2D at byte 4,
\* pm25 0x0C 0x01 at bytes 28..29
F1Blob ==
    HexBlob(60, 7 :> "1" @@ 8 :> "7" @@ 9 :> "2" @@ 10 :> "D"
                @@ 58 :> "C" @@ 60 :> "1")
\* the same with temperature 0x1a
F1BlobLower == HexBlob(60, 7 :> "1" @@ 8 :> "a")
\* 19 bytes: odor 0x10 at byte 14, dust 0x38 at 15, air quality 0x4C at 17,
\* water container 0x01 at 18
F2Blob ==
    HexBlob(38, 29 :> "1" @@ 31 :> "3" @@ 32 :> "8" @@ 35 :> "4" @@ 36 :> "C"
                @@ 38 :> "1")

StatusEntry(code, blob) == [statusCode |-> code, hasCode |-> TRUE, code |-> blob]
StatusEntryNoValue(code) == [statusCode |-> code, hasCode |-> FALSE, code |-> <<>>]

PowerOnPayload == get_binary_payload(PowerStateCommand("ON")).payload
ModeAutoPayload == get_binary_payload(ChangeModeCommand(OperatingModeAuto)).payload

StatusEntries ==
    { StatusEntry("F1", F1Blob),
      StatusEntry("f1", F1BlobLower),
      StatusEntry("F1", SubSeq(F1Blob, 1, 58)),
      StatusEntry("F1", SubSeq(F1Blob, 1, 59)),
      StatusEntry("F1", <<"G","0">> \o SubSeq(F1Blob, 3, 60)),
      StatusEntryNoValue("F1"),
      StatusEntry("F2", F2Blob),
      StatusEntry("f2", SubSeq(F2Blob, 1, 30)),
      StatusEntry("F2", <<"x">>),
      StatusEntry("F3", PowerOnPayload),
      StatusEntry("f3", <<" ">> \o ModeAutoPayload),
      StatusEntry("F3", SubSeq(PowerOnPayload, 1, 53)),
      StatusEntry("F3", HexBlob(54, 9 :> "7" @@ 10 :> "7")),
      StatusEntry("80", <<"3","0">>),
      StatusEntry("E1", <<"z","z","z">>),
      StatusEntryNoValue(Null) }

StatusLists == UNION {[1..k -> StatusEntries] : k \in 0..MaxStatusEntries}

ApiResponses ==
    {[hasStatus |-> FALSE, status |-> <<>>]}
    \cup {[hasStatus |-> TRUE, status |-> l] : l \in StatusLists}

\* The F3 commands of device_control.py with every value of their enumeration
F3Commands ==
    {[src |-> "ChangeModeCommand", member |-> m.name,
      cmd |-> ChangeModeCommand(m.value)] : m \in OperatingMode}
    \cup {[src |-> "_PowerStateCommand", member |-> m.name,
           cmd |-> PowerStateCommand(m.name)] : m \in PowerState}
    \cup {[src |-> "HumidificationCommand", member |-> m.name,
           cmd |-> HumidificationCommand(m.value)] : m \in HumidificationState}
    \cup {[src |-> "ChildLockCommand", member |-> m.name,
           cmd |-> ChildLockCommand(m.value)] : m \in ChildLockState}
    \cup {[src |-> "LEDBrightnessCommand", member |-> m.name,
           cmd |-> LEDBrightnessCommand(m.value)] : m \in LEDBrightnessState}

\* Blobs that no command of the repository produces
RawBlobs ==
    { <<>>,
      SubSeq(PowerOnPayload, 1, 53),
      PowerOnPayload \o <<"0">>,
      HexBlob(54, 9 :> "7" @@ 10 :> "7"),
      HexBlob(54, 39 :> "F" @@ 40 :> "F"),
      HexBlob(54, 9 :> "1" @@ 10 :> "6" @@ 27 :> "F" @@ 28 :> "F"
                  @@ 31 :> "F" @@ 32 :> "F" @@ 37 :> "F" @@ 38 :> "F"
                  @@ 53 :> "F") }

\* Whitespace around the blob
Pads == {<<>>, <<" ">>, <<"\n", " ">>}

F3Inputs ==
    {[src |-> c.src, member |-> c.member, lead |-> l,
      core |-> get_binary_payload(c.cmd).payload, trail |-> t] :
        c \in F3Commands, l \in Pads, t \in Pads}
    \cup {[src |-> "raw", member |-> "", lead |-> l, core |-> b, trail |-> t] :
            b \in RawBlobs, l \in Pads, t \in Pads}

Readings == (-2)..MaxReading

NoF3Input == [src |-> "", member |-> "", lead |-> <<>>, core |-> <<>>, trail |-> <<>>]
NoF3Output == [ok |-> FALSE, error |-> "", value |-> NoF3]
NoApiInput == [hasStatus |-> FALSE, status |-> <<>>]

DecoderIdle ==
    /\ dMode = "off"
    /\ dpc = "off"
    /\ qIn = 0
    /\ qOut = ""
    /\ f3In = NoF3Input
    /\ f3Out = NoF3Output
    /\ apiIn = NoApiInput
    /\ apiOut = NoSnapshot

DecoderInit ==
    /\ dMode \in {"quality", "f3", "api"}
    /\ dpc = "input"
    /\ qIn \in (IF dMode = "quality" THEN Readings ELSE {0})
    /\ qOut = ""
    /\ f3In \in (IF dMode = "f3" THEN F3Inputs ELSE {NoF3Input})
    /\ f3Out = NoF3Output
    /\ apiIn \in (IF dMode = "api" THEN ApiResponses ELSE {NoApiInput})
    /\ apiOut = NoSnapshot

ParseQuality ==
    /\ dMode = "quality"
    /\ dpc = "input"
    /\ qOut' = QualityLevel_parse(qIn)
    /\ dpc' = "done"
    /\ UNCHANGED <<dMode, qIn, f3In, f3Out, apiIn, apiOut, engineVars, codecVars, serviceVars>>

DecodeF3 ==
    /\ dMode = "f3"
    /\ dpc = "input"
    /\ f3Out' = F3_from_hex(f3In.lead \o f3In.core \o f3In.trail)
    /\ dpc' = "done"
    /\ UNCHANGED <<dMode, qIn, qOut, f3In, apiIn, apiOut, engineVars, codecVars, serviceVars>>

DecodeProperties ==
    /\ dMode = "api"
    /\ dpc = "input"
    /\ apiOut' = from_api_response(apiIn)
    /\ dpc' = "done"
    /\ UNCHANGED <<dMode, qIn, qOut, f3In, f3Out, apiIn, engineVars, codecVars, serviceVars>>

DecoderNext == ParseQuality \/ DecodeF3 \/ DecodeProperties

-----------------------------------------------------------------------------
(* Inputs of the execution engine *)

\* Commands a caller may build: the repository's own, and DeviceStatusCommand
\* subclasses whose header, position or value build_payload rejects.
EngineCommands ==
    { ChangeModeCommand(OperatingModeAuto),
      PowerCommand("OFF"),
      DeviceStatusCommand(<<"0","0","0","2","0","0","0">>, 18, <<"F","F">>),
      DeviceStatusCommand(<<"0","0","4","0","0","0","0","0">>, 46, <<"F","F">>),
      DeviceStatusCommand(<<"0","0","4","0","0","0","0","0">>, -1, <<"F","F">>),
      DeviceStatusCommand(<<"0","0","0","0","4","0","0","0">>, 45, <<"F","F">>) }

CommandLists == UNION {[1..k -> EngineCommands] : k \in 0..MaxCommands}

\* Operation objects a caller can hold
EngineOperations ==
    {RefreshStateOperation, PowerOperation("ON"), PowerOperation("OFF")}
    \cup {CommandOperation(c) : c \in EngineCommands}
    \cup {OperationList(cs).op : cs \in (CommandLists \ {<<>>})}

\* With two concurrent callers the inputs are the representative ones
CoreOperations == {RefreshStateOperation, PowerOperation("ON")}
CoreCommandLists == {<<>>, <<PowerCommand("OFF")>>}

OperationsFor(cs) ==
    IF Cardinality(cs) <= 1 THEN EngineOperations ELSE CoreOperations

CommandListsFor(cs) ==
    IF Cardinality(cs) <= 1 THEN CommandLists ELSE CoreCommandLists

OperationIds == {"op1", "op2"}

\* Responses of the control request (post_json of deviceControl)
SubmitException == [exc |-> TRUE, hasList |-> FALSE, list |-> <<>>]
SubmitResponses ==
    {SubmitException}
    \cup {[exc |-> FALSE, hasList |-> FALSE, list |-> <<>>]}
    \cup {[exc |-> FALSE, hasList |-> TRUE, list |-> <<>>]}
    \cup {[exc |-> FALSE, hasList |-> TRUE, list |-> <<[id |-> i]>>] :
             i \in OperationIds \cup {Null, ""}}

CoreSubmitResponses ==
    {SubmitException}
    \cup {[exc |-> FALSE, hasList |-> TRUE, list |-> <<[id |-> i]>>] :
             i \in OperationIds}

SubmitResponsesFor(cs) ==
    IF Cardinality(cs) <= 1 THEN SubmitResponses ELSE CoreSubmitResponses

\* Responses of the status request (post_json of controlResult)
ResultEntries ==
    [id : OperationIds,
     status : {Null, "error", "success", "unmatch", "pending"},
     errorCode : {Null, "E1"}]

PollException == [exc |-> TRUE, hasList |-> FALSE, list |-> <<>>]

PollResponses ==
    {PollException}
    \cup {[exc |-> FALSE, hasList |-> FALSE, list |-> <<>>]}
    \cup {[exc |-> FALSE, hasList |-> TRUE, list |-> <<>>]}
    \cup {[exc |-> FALSE, hasList |-> TRUE, list |-> <<e>>] : e \in ResultEntries}
    \cup {[exc |-> FALSE, hasList |-> TRUE, list |-> <<e, f>>] :
             e \in ResultEntries,
             f \in {[id |-> i, status |-> "success", errorCode |-> Null] :
                       i \in OperationIds}}

CorePollResponses ==
    {PollException}
    \cup {[exc |-> FALSE, hasList |-> TRUE, list |-> <<>>]}
    \cup {[exc |-> FALSE, hasList |-> TRUE,
           list |-> <<[id |-> "op1", status |-> st, errorCode |-> Null]>>] :
             st \in {"error", "success", "pending"}}

PollResponsesFor(cs) ==
    IF Cardinality(cs) <= 1 THEN PollResponses ELSE CorePollResponses

-----------------------------------------------------------------------------
(* operations.py: SharpOperations.execute_operation / execute_commands *)

NoOperation == [kind |-> "none", commands |-> <<>>]

\* The locals of one execution, before the call
IdleExecution ==
    [pc |-> "idle", entry |-> "", op |-> NoOperation, request |-> <<>>,
     submits |-> 0, polls |-> 0, opId |-> "", i |-> 0,
     submitResp |-> [exc |-> FALSE, hasList |-> FALSE, list |-> <<>>],
     hist |-> <<>>, lastPoll |-> [exc |-> FALSE, hasList |-> FALSE, list |-> <<>>],
     cancelRequested |-> FALSE, pollIds |-> <<>>, site |-> "",
     returned |-> "none"]

\* return / raise: the execution ends at `site` with `value`
Finish(e, site, value) ==
    [e EXCEPT !.pc = "done", !.site = site, !.returned = value]

\* Mutant of SubmitHasId: an empty id counts as an operation id
SubmitHasId_emptyOk(resp) ==
    /\ resp.hasList
    /\ resp.list # <<>>
    /\ resp.list[1].id # Null

\* line 95: not control_result.get("controlList")
\*          or not control_result["controlList"][0].get("id")
SubmitHasId(resp) ==
    /\ resp.hasList
    /\ resp.list # <<>>
    /\ resp.list[1].id # Null
    /\ resp.list[1].id # ""

\* line 119: not status_result.get("resultList")
HasResultList(resp) == resp.hasList /\ resp.list # <<>>

\* Mutant of IsErrorResult: an error is recognised only with an error code
IsErrorResult_needsCode(result) ==
    result.status = "error" /\ result.errorCode # Null

\* line 126: result.get("status") == "error"
IsErrorResult(result) == result.status = "error"

\* Mutant of IsSuccessResult: "unmatch" is not taken as completion
IsSuccessResult_noUnmatch(result) ==
    result.errorCode = Null /\ result.status = "success"

\* Mutant of IsSuccessResult: the error code is not looked at
IsSuccessResult_ignoresCode(result) ==
    result.status \in {"unmatch", "success"}

\* line 129: result.get("errorCode") is None
\*           and result.get("status") in ["unmatch", "success"]
IsSuccessResult(result) ==
    result.errorCode = Null /\ result.status \in {"unmatch", "success"}

\* Mutant of LoopContinues: one iteration too many
LoopContinues_offByOne(i) == i < MaxPolls

\* line 115: for i in range(10) has another iteration after iteration i
LoopContinues(i) == i + 1 < MaxPolls

\* lines 79-93: build the status list (outside the try), then send the
\* control request
StartExecution(e, entry, op) ==
    LET sl == get_status_list(op)
        called == [e EXCEPT !.entry = entry, !.op = op]
    IN  IF ~sl.ok
        THEN Finish(called, "raise", "raise")
        ELSE [called EXCEPT !.pc = "submitting", !.request = sl.list,
                            !.submits = @ + 1]

\* lines 140-143: OperationList(commands) raises on an empty list, before
\* execute_operation is entered
StartCommands(e, commands) ==
    LET o == OperationList(commands)
    IN  IF ~o.ok
        THEN Finish([e EXCEPT !.entry = "execute_commands", !.op = o.op],
                    "raise", "raise")
        ELSE StartExecution(e, "execute_commands", o.op)

\* lines 93-113 and 136-138: the control response
AfterSubmit(e, resp) ==
    IF resp.exc
    THEN Finish(e, "L138", "False")
    ELSE IF ~SubmitHasId(resp)
    THEN Finish(e, "L97", "False")
    ELSE [e EXCEPT !.opId = resp.list[1].id, !.pc = "sleeping", !.i = 0]

\* Mutant of Continue: the exhausted loop reports success
Continue_trueAtEnd(e) ==
    IF LoopContinues(e.i)
    THEN [e EXCEPT !.i = @ + 1, !.pc = "sleeping"]
    ELSE Finish(e, "L134", "True")

\* Mutant of Continue: a pending cancellation request ends the loop early
Continue_honoursCancel(e) ==
    IF LoopContinues(e.i) /\ ~e.cancelRequested
    THEN [e EXCEPT !.i = @ + 1, !.pc = "sleeping"]
    ELSE Finish(e, "L134", "False")

\* Mutant of Continue: the exhausted loop is run a second time
Continue_secondRound(e) ==
    IF LoopContinues(e.i)
    THEN [e EXCEPT !.i = @ + 1, !.pc = "sleeping"]
    ELSE IF e.polls <= MaxPolls
    THEN [e EXCEPT !.i = 0, !.pc = "sleeping"]
    ELSE Finish(e, "L134", "False")

\* line 121 / end of the loop body: next iteration, or lines 133-134
Continue(e) ==
    IF LoopContinues(e.i)
    THEN [e EXCEPT !.i = @ + 1, !.pc = "sleeping"]
    ELSE Finish(e, "L134", "False")

\* Mutant of StatusData: the id is taken from the last status response
StatusData_fromLastPoll(e) ==
    IF HasResultList(e.lastPoll) THEN e.lastPoll.list[1].id ELSE e.opId

\* lines 107-113: status_data = {"resultList": [{"id": operation_id}]}, built
\* once before the loop
StatusData(e) == e.opId

\* Mutant of AfterPoll: an "error" entry is skipped like an unknown status
AfterPoll_skipsError(e, resp) ==
    IF resp.exc
    THEN Finish(e, "L138", "False")
    ELSE IF ~HasResultList(resp)
    THEN Continue(e)
    ELSE IF IsSuccessResult(resp.list[1])
    THEN Finish(e, "L131", "True")
    ELSE Continue(e)

\* Mutant of AfterPoll: an exception of the status request uses up one
\* attempt
AfterPoll_exceptionIsAttempt(e, resp) ==
    IF resp.exc \/ ~HasResultList(resp)
    THEN Continue(e)
    ELSE IF IsErrorResult(resp.list[1])
    THEN Finish(e, "L128", "False")
    ELSE IF IsSuccessResult(resp.list[1])
    THEN Finish(e, "L131", "True")
    ELSE Continue(e)

\* lines 117-134 and 136-138: the status response of one attempt
AfterPoll(e, resp) ==
    IF resp.exc
    THEN Finish(e, "L138", "False")
    ELSE IF ~HasResultList(resp)
    THEN Continue(e)
    ELSE IF IsErrorResult(resp.list[1])
    THEN Finish(e, "L128", "False")
    ELSE IF IsSuccessResult(resp.list[1])
    THEN Finish(e, "L131", "True")
    ELSE Continue(e)

\* What a response is in the words of section 4.5, read off its first
\* result entry
RespClass(resp) ==
    IF resp.exc THEN "exception"
    ELSE IF ~resp.hasList \/ resp.list = <<>> THEN "nonterminal"
    ELSE IF resp.list[1].status = "error" THEN "error"
    ELSE IF resp.list[1].status \in {"success", "unmatch"}
            /\ resp.list[1].errorCode = Null THEN "success"
    ELSE "nonterminal"

\* The outcome of section 4.5 that a return site stands for
OutcomeAt(site) ==
    CASE site = "L131" -> "Success"
      [] site = "L134" -> "Timeout"
      [] site \in {"L97", "L128", "L138"} -> "Error"
      [] site = "raise" -> "ConstructionError"
      [] OTHER -> "none"

Outcome(c) == OutcomeAt(ex[c].site)

\* Mutant of CallExecuteOperation: a call waits until no other execution is
\* under way
CallExecuteOperation_serialised(c) ==
    /\ ex[c].pc = "idle"
    /\ \A d \in callers : ex[d].pc \in {"idle", "done"}
    /\ \E op \in OperationsFor(callers) :
         ex' = [ex EXCEPT ![c] = StartExecution(@, "execute_operation", op)]
    /\ UNCHANGED <<callers, codecVars, decoderVars, serviceVars>>

CallExecuteOperation(c) ==
    /\ ex[c].pc = "idle"
    /\ \E op \in OperationsFor(callers) :
         ex' = [ex EXCEPT ![c] = StartExecution(@, "execute_operation", op)]
    /\ UNCHANGED <<callers, codecVars, decoderVars, serviceVars>>

CallExecuteCommands(c) ==
    /\ ex[c].pc = "idle"
    /\ \E commands \in CommandListsFor(callers) :
         ex' = [ex EXCEPT ![c] = StartCommands(@, commands)]
    /\ UNCHANGED <<callers, codecVars, decoderVars, serviceVars>>

SubmitResponse(c) ==
    /\ ex[c].pc = "submitting"
    /\ \E resp \in SubmitResponsesFor(callers) :
         ex' = [ex EXCEPT ![c] = AfterSubmit([@ EXCEPT !.submitResp = resp], resp)]
    /\ UNCHANGED <<callers, codecVars, decoderVars, serviceVars>>

\* line 116: the external cancellation / deadline signal arrives during
\* time.sleep(1); nothing in execute_operation reads it
Cancel(c) ==
    /\ ex[c].pc = "sleeping"
    /\ ~ex[c].cancelRequested
    /\ ex' = [ex EXCEPT ![c].cancelRequested = TRUE]
    /\ UNCHANGED <<callers, codecVars, decoderVars, serviceVars>>

\* lines 116-117: the sleep ends and the status request is sent
PollSend(c) ==
    /\ ex[c].pc = "sleeping"
    /\ ex' = [ex EXCEPT ![c].pc = "polling", ![c].polls = @ + 1,
                         ![c].pollIds = Append(@, StatusData(ex[c]))]
    /\ UNCHANGED <<callers, codecVars, decoderVars, serviceVars>>

PollResponse(c) ==
    /\ ex[c].pc = "polling"
    /\ \E resp \in PollResponsesFor(callers) :
         ex' = [ex EXCEPT ![c] =
                  AfterPoll([@ EXCEPT !.hist = Append(@, RespClass(resp)),
                                      !.lastPoll = resp], resp)]
    /\ UNCHANGED <<callers, codecVars, decoderVars, serviceVars>>

EngineNext ==
    \/ \E c \in callers : CallExecuteOperation(c)
    \/ \E c \in callers : CallExecuteCommands(c)
    \/ \E c \in callers : SubmitResponse(c)
    \/ \E c \in callers : Cancel(c)
    \/ \E c \in callers : PollSend(c)
    \/ \E c \in callers : PollResponse(c)

EngineInit(cs) ==
    /\ callers = cs
    /\ ex = [c \in cs |-> IdleExecution]

-----------------------------------------------------------------------------
(* coordinator.py: SharpIoTDataUpdateCoordinator *)

\* most devices a discovery returns
MaxDevices == 2

\* box ids the server knows
BoxIds == {"b1", "b2", "b3"}

\* self.devices: one BoxInfo per box of the boxInfo response
DeviceLists ==
    {s \in UNION {[1..k -> BoxIds] : k \in 0..MaxDevices} :
        \A i, j \in 1..Len(s) : i # j => s[i] # s[j]}

\* What get_device_properties meets: an exception of get_json, or a response
\* that from_api_response decodes or fails on
FetchException == [exc |-> TRUE, response |-> NoApiInput]
FetchResponses ==
    {FetchException}
    \cup {[exc |-> FALSE, response |-> [hasStatus |-> TRUE, status |-> l]] :
            l \in { <<>>,
                    <<StatusEntry("F1", F1Blob)>>,
                    <<StatusEntry("f1", F1BlobLower), StatusEntry("F3", PowerOnPayload)>>,
                    <<StatusEntry("F3", SubSeq(PowerOnPayload, 1, 53))>>,
                    <<StatusEntry("F2", <<"x">>)>> }}

\* operations.py lines 57-67: get_device_properties
get_device_properties(fetch) ==
    IF fetch.exc THEN NoSnapshot ELSE from_api_response(fetch.response)

\* An entry of device_data; `present` is FALSE for a box id without entry
NoEntry == [present |-> FALSE, available |-> FALSE, properties |-> NoSnapshot]
NoData == [b \in BoxIds |-> NoEntry]

\* Mutant of DeviceEntry: a failed fetch keeps the device available
DeviceEntry_alwaysAvailable(fetch) ==
    [present |-> TRUE, available |-> TRUE,
     properties |-> get_device_properties(fetch)]

\* lines 62-84: the entry written for one device
DeviceEntry(fetch) ==
    LET properties == get_device_properties(fetch)
    IN  IF properties.ok
        THEN [present |-> TRUE, available |-> TRUE, properties |-> properties]
        ELSE [present |-> TRUE, available |-> FALSE, properties |-> NoSnapshot]

\* lines 130-133: is_device_available, reading self.data
is_device_available(data, device_id) ==
    IF device_id \in DOMAIN data /\ data[device_id].present
    THEN data[device_id].available
    ELSE FALSE

\* lines 94-98: the device with box_id = device_id, or None
FindDevice(devices, device_id) ==
    IF \E i \in 1..Len(devices) : devices[i] = device_id
    THEN device_id
    ELSE Null

\* The coordinator between two calls
CoIdleCall ==
    [pc |-> "idle", op |-> "", device_id |-> "", execCalls |-> 0,
     execResult |-> "", refreshes |-> 0, returned |-> "none", setups |-> 0,
     discovered |-> FALSE, i |-> 0,
     device_data |-> NoData, fetched |-> [b \in BoxIds |-> FetchException]]

\* __init__ (lines 25-38): no devices, never refreshed, no data
CoOff ==
    [devices |-> <<>>, last_terminal_refresh |-> 0, data |-> NoData,
     call |-> CoIdleCall]

\* Mutant of AfterExecute: the refresh is requested whatever the result
AfterExecute_alwaysRefreshes(call, success) ==
    [call EXCEPT !.pc = "done", !.execResult = success,
                 !.refreshes = @ + 1,
                 !.returned = IF success = "True" THEN "True" ELSE "False"]

\* lines 112-119: refresh after a successful execution, False on an
\* exception
AfterExecute(call, success) ==
    IF success = "True"
    THEN [call EXCEPT !.pc = "done", !.execResult = success,
                      !.refreshes = @ + 1, !.returned = "True"]
    ELSE [call EXCEPT !.pc = "done", !.execResult = success,
                      !.returned = "False"]

\* lines 92-110: look the device up, hand execute_operation to the executor;
\* "b9" is a device id that no box has
CoExecuteCommand ==
    /\ co.call.pc = "idle"
    /\ \E device_id \in BoxIds \cup {"b9"} :
         LET device == FindDevice(co.devices, device_id)
             called == [co.call EXCEPT !.op = "async_execute_command",
                                       !.device_id = device_id]
         IN  co' = [co EXCEPT !.call =
                      IF device = Null
                      THEN [called EXCEPT !.pc = "done", !.returned = "False"]
                      ELSE [called EXCEPT !.pc = "executing",
                                          !.execCalls = @ + 1]]
    /\ UNCHANGED <<engineVars, codecVars, decoderVars, au>>

\* lines 105-119: execute_operation returned True or False, or raised
CoExecuteReturns ==
    /\ co.call.pc = "executing"
    /\ \E success \in {"True", "False", "raise"} :
         co' = [co EXCEPT !.call = AfterExecute(@, success)]
    /\ UNCHANGED <<engineVars, codecVars, decoderVars, au>>

\* lines 44-53: refresh the terminal id when due (always on the first run;
\* setup_with_terminal_id catches its own exceptions), then discover when
\* there are no devices
CoUpdateStart ==
    /\ co.call.pc = "idle"
    /\ \E due \in (IF co.last_terminal_refresh = 0 THEN {TRUE} ELSE BOOLEAN) :
         co' = [co EXCEPT
                  !.last_terminal_refresh = IF due THEN 1 ELSE @,
                  !.call = [@ EXCEPT !.op = "_async_update_data",
                                     !.setups = IF due THEN 1 ELSE 0,
                                     !.pc = IF co.devices = <<>>
                                            THEN "discovering" ELSE "fetching",
                                     !.i = 1]]
    /\ UNCHANGED <<engineVars, codecVars, decoderVars, au>>

\* lines 54-57 and 88-90: discover_and_pair_devices returns the devices or
\* raises
CoDiscovered ==
    /\ co.call.pc = "discovering"
    /\ \/ co' = [co EXCEPT !.call = [@ EXCEPT !.pc = "done",
                                              !.returned = "UpdateFailed"]]
       \/ \E devices \in DeviceLists :
             co' = [co EXCEPT !.devices = devices,
                              !.call = [@ EXCEPT !.pc = "fetching",
                                                 !.discovered = TRUE]]
    /\ UNCHANGED <<engineVars, codecVars, decoderVars, au>>

\* lines 61-84: one iteration of the loop over self.devices
CoFetch ==
    /\ co.call.pc = "fetching"
    /\ co.call.i <= Len(co.devices)
    /\ \E fetch \in FetchResponses :
         LET box_id == co.devices[co.call.i]
         IN  co' = [co EXCEPT
                      !.call = [@ EXCEPT !.i = @ + 1,
                                         !.fetched[box_id] = fetch,
                                         !.device_data[box_id] = DeviceEntry(fetch)]]
    /\ UNCHANGED <<engineVars, codecVars, decoderVars, au>>

\* line 86: return device_data, which becomes self.data
CoUpdateReturn ==
    /\ co.call.pc = "fetching"
    /\ co.call.i > Len(co.devices)
    /\ co' = [co EXCEPT !.data = co.call.device_data,
                        !.call = [@ EXCEPT !.pc = "done", !.returned = "data"]]
    /\ UNCHANGED <<engineVars, codecVars, decoderVars, au>>

\* The call is over; the coordinator waits for the next one
CoNextCall ==
    /\ co.call.pc = "done"
    /\ co' = [co EXCEPT !.call = CoIdleCall]
    /\ UNCHANGED <<engineVars, codecVars, decoderVars, au>>

CoordinatorNext ==
    \/ CoExecuteCommand
    \/ CoExecuteReturns
    \/ CoUpdateStart
    \/ CoDiscovered
    \/ CoFetch
    \/ CoUpdateReturn
    \/ CoNextCall

-----------------------------------------------------------------------------
(* auth_server.py: the session dictionary and its three handlers *)

\* uuid4 values start_auth can draw ("s9" in the handlers below is an id
\* that no session ever had)
SessionIds == {"s1", "s2"}

\* `exists` is FALSE for an id that is not a key of `sessions`; `old` says
\* that created_at is more than an hour ago; login / register tell how the
\* two calls of the last callback that got to them ended
NoSession ==
    [exists |-> FALSE, step |-> "", terminal_app_id |-> Null,
     error_message |-> Null, old |-> FALSE, login |-> "none",
     register |-> "none"]

NoReply ==
    [handler |-> "", session_id |-> "", http |-> 0, success |-> FALSE,
     step |-> "", terminal_id |-> Null, error |-> Null]

AuOff == [sessions |-> [s \in SessionIds |-> NoSession], reply |-> NoReply]

\* The coordinator and the auth server as constructed
ServiceIdle == co = CoOff /\ au = AuOff

\* lines 49-58: cleanup_sessions
cleanup_sessions(sessions) ==
    [s \in SessionIds |-> IF sessions[s].exists /\ sessions[s].old
                          THEN NoSession ELSE sessions[s]]

\* lines 162-206: start_auth; get_terminal_app_id returns
\* data.get("terminalAppId") or raises, and a failure is answered
\* with HTTP 500 after the cleanup
start_auth ==
    /\ \E session_id \in SessionIds, terminal \in {"t1", "t2", Null, "raise"} :
         LET cleaned == cleanup_sessions(au.sessions)
         IN  /\ ~cleaned[session_id].exists
             /\ au' = IF terminal = "raise"
                      THEN [sessions |-> cleaned,
                            reply |-> [NoReply EXCEPT !.handler = "start",
                                                      !.http = 500,
                                                      !.error = "exception"]]
                      ELSE [sessions |->
                              [cleaned EXCEPT ![session_id] =
                                 [NoSession EXCEPT !.exists = TRUE,
                                                   !.step = "waiting_callback",
                                                   !.terminal_app_id = terminal]],
                            reply |-> [NoReply EXCEPT !.handler = "start",
                                                      !.session_id = session_id,
                                                      !.http = 200,
                                                      !.success = TRUE]]
    /\ UNCHANGED <<engineVars, codecVars, decoderVars, co>>

\* The callback URLs: what precedes the query, and the query's parameters
RedirectPrefix == "sharp-cocoroair-eu://authorize?"
CallbackUrls ==
    [prefix : {RedirectPrefix, "sharp-cocoroair-eu://authorize",
               "https://example.org/?"},
     query : { <<>>,
               <<[key |-> "code", value |-> "c1"]>>,
               <<[key |-> "code", value |-> ""]>>,
               <<[key |-> "state", value |-> "x"]>>,
               <<[key |-> "state", value |-> "x"],
                 [key |-> "code", value |-> "c2"]>> }]

\* lines 226-228: parse_qs drops parameters with a blank value;
\* query_params.get('code', [None])[0] is the first value of `code`
ExtractCode(url) ==
    LET codes == SelectSeq(url.query,
                           LAMBDA p : p.key = "code" /\ p.value # "")
    IN  IF codes = <<>> THEN Null ELSE codes[1].value

CallbackReply(session_id, success, error) ==
    [NoReply EXCEPT !.handler = "callback", !.session_id = session_id,
                    !.http = 200, !.success = success, !.error = error]

\* Mutant of CompleteLogin: the session is marked successful before the
\* terminal is registered
CompleteLogin_beforeRegister(session, login, register) ==
    IF login = "raise"
    THEN [session EXCEPT !.step = "error", !.error_message = "login",
                         !.login = "raise", !.register = "none"]
    ELSE [session EXCEPT !.step = "success", !.login = "ok",
                         !.register = register]

\* lines 236-262: login_with_code, register_terminal, then 'success'; an
\* exception of either makes the step 'error'
CompleteLogin(session, login, register) ==
    IF login = "raise"
    THEN [session EXCEPT !.step = "error", !.error_message = "login",
                         !.login = "raise", !.register = "none"]
    ELSE IF register = "raise"
    THEN [session EXCEPT !.step = "error", !.error_message = "register",
                         !.login = "ok", !.register = "raise"]
    ELSE [session EXCEPT !.step = "success", !.login = "ok",
                         !.register = "ok"]

\* lines 208-262: handle_manual_callback
handle_manual_callback ==
    /\ \E session_id \in SessionIds \cup {"s9"},
          url \in CallbackUrls, login \in {"ok", "raise"},
          register \in {"ok", "raise"} :
         IF session_id \notin SessionIds \/ ~au.sessions[session_id].exists
         THEN au' = [au EXCEPT !.reply =
                       CallbackReply(session_id, FALSE, "Invalid session ID")]
         ELSE IF url.prefix # RedirectPrefix
         THEN au' = [au EXCEPT !.reply =
                       CallbackReply(session_id, FALSE, "Invalid callback URL format")]
         ELSE IF ExtractCode(url) = Null
         THEN au' = [au EXCEPT !.reply =
                       CallbackReply(session_id, FALSE, "No authorization code")]
         ELSE LET session == CompleteLogin(au.sessions[session_id], login, register)
              IN  au' = [sessions |-> [au.sessions EXCEPT ![session_id] = session],
                         reply |-> IF session.step = "success"
                                   THEN CallbackReply(session_id, TRUE, Null)
                                   ELSE CallbackReply(session_id, FALSE,
                                                      session.error_message)]
    /\ UNCHANGED <<engineVars, codecVars, decoderVars, co>>

\* Mutant of StatusReply: the terminal app id is always part of the answer
StatusReply_alwaysDiscloses(session_id, session) ==
    [NoReply EXCEPT !.handler = "status", !.session_id = session_id,
                    !.http = 200, !.success = TRUE, !.step = session.step,
                    !.terminal_id = session.terminal_app_id,
                    !.error = session.error_message]

\* lines 272-277: AuthStatusResponse
StatusReply(session_id, session) ==
    [NoReply EXCEPT !.handler = "status", !.session_id = session_id,
                    !.http = 200, !.success = TRUE, !.step = session.step,
                    !.terminal_id = IF session.step = "success"
                                    THEN session.terminal_app_id ELSE Null,
                    !.error = session.error_message]

\* lines 264-277: get_auth_status
get_auth_status ==
    /\ \E session_id \in SessionIds \cup {"s9"} :
         au' = [au EXCEPT !.reply =
                  IF session_id \notin SessionIds \/ ~au.sessions[session_id].exists
                  THEN [NoReply EXCEPT !.handler = "status",
                                       !.session_id = session_id,
                                       !.http = 404,
                                       !.error = "Session not found"]
                  ELSE StatusReply(session_id, au.sessions[session_id])]
    /\ UNCHANGED <<engineVars, codecVars, decoderVars, co>>

\* line 54: an hour passes after the session's created_at
SessionExpires ==
    /\ \E session_id \in SessionIds :
         /\ au.sessions[session_id].exists
         /\ ~au.sessions[session_id].old
         /\ au' = [au EXCEPT !.sessions[session_id].old = TRUE]
    /\ UNCHANGED <<engineVars, codecVars, decoderVars, co>>

AuthNext ==
    \/ start_auth
    \/ handle_manual_callback
    \/ get_auth_status
    \/ SessionExpires

Init == EngineInit({1}) /\ CodecIdle /\ DecoderIdle /\ ServiceIdle

Spec == Init /\ [][EngineNext]_vars

\* One caller whose requests are all answered, by a response or by an
\* exception: post_json returns or raises, and time.sleep(1) ends
EngineFairness ==
    /\ WF_vars(SubmitResponse(1))
    /\ WF_vars(PollSend(1))
    /\ WF_vars(PollResponse(1))

SpecLive == Init /\ [][EngineNext]_vars /\ EngineFairness

\* Two callers run execute_operation on the same SharpOperations object
InitConcurrent == EngineInit({1, 2}) /\ CodecIdle /\ DecoderIdle /\ ServiceIdle

SpecConcurrent == InitConcurrent /\ [][EngineNext]_vars

InitCodec == EngineInit({}) /\ CodecInit /\ DecoderIdle /\ ServiceIdle

SpecCodec == InitCodec /\ [][CodecNext]_vars

InitDecoder == EngineInit({}) /\ CodecIdle /\ DecoderInit /\ ServiceIdle

SpecDecoder == InitDecoder /\ [][DecoderNext]_vars

InitService == EngineInit({}) /\ CodecIdle /\ DecoderIdle /\ ServiceIdle

SpecCoordinator == InitService /\ [][CoordinatorNext]_vars

SpecAuth == InitService /\ [][AuthNext]_vars

-----------------------------------------------------------------------------
(* Properties of the execution engine *)

\* The first k-1 poll responses were non-terminal
QuietBefore(c, k) == \A j \in 1..(k - 1) : ex[c].hist[j] = "nonterminal"

Done(c) == ex[c].pc = "done"

\* The control response has arrived
SubmitAnswered(c) == ex[c].submits >= 1 /\ ex[c].pc # "submitting"

\* The control response carries no operation id: no or an empty controlList,
\* or a missing or empty id
NoOperationId(resp) ==
    \/ ~resp.hasList
    \/ resp.list = <<>>
    \/ resp.list[1].id \in {Null, ""}

\* C1: when the first k-1 poll responses (1 <= k <= 10) are non-terminal and
\* the k-th has status "success" or "unmatch" with no error code, the
\* execution has ended in Success with exactly k poll requests sent; as the
\* history stays, no poll request is sent afterwards.
C1_SuccessAfterKPolls ==
    \A c \in callers : \A k \in 1..MaxPolls :
        (Len(ex[c].hist) >= k /\ QuietBefore(c, k) /\ ex[c].hist[k] = "success")
        => /\ Done(c)
           /\ Outcome(c) = "Success"
           /\ ex[c].returned = "True"
           /\ ex[c].polls = k

C1_Witness ==
    \E c \in callers :
        /\ ex[c].hist = <<"nonterminal", "nonterminal", "success">>
        /\ ex[c].lastPoll.list[1].status = "unmatch"
        /\ Done(c)
        /\ ex[c].polls = 3

\* C2: when the result entry of attempt k (1 <= k <= 10) has status "error",
\* the execution has ended in Error right after that attempt: exactly k poll
\* requests were made and none follows.
C2_ErrorAfterKPolls ==
    \A c \in callers : \A k \in 1..MaxPolls :
        (Len(ex[c].hist) >= k /\ QuietBefore(c, k) /\ ex[c].hist[k] = "error")
        => /\ Done(c)
           /\ Outcome(c) = "Error"
           /\ ex[c].site = "L128"
           /\ ex[c].returned = "False"
           /\ ex[c].polls = k

C2_Witness ==
    \E c \in callers :
        /\ ex[c].hist = <<"nonterminal", "error">>
        /\ ex[c].lastPoll.list[1].errorCode = Null
        /\ Done(c)
        /\ ex[c].polls = 2

\* C3: when the submission succeeded and no poll response is terminal, the
\* execution makes exactly 10 poll requests and then ends in Timeout: it
\* does not end before the 10th response, it has ended with the 10th, and
\* an 11th poll request is never sent.
C3_TimeoutAfterTenPolls ==
    \A c \in callers :
        /\ ex[c].polls <= MaxPolls
        /\ (ex[c].opId # "" /\ QuietBefore(c, Len(ex[c].hist) + 1))
           => /\ Len(ex[c].hist) < MaxPolls => ~Done(c)
              /\ Len(ex[c].hist) >= MaxPolls =>
                    /\ Done(c)
                    /\ Outcome(c) = "Timeout"
                    /\ ex[c].returned = "False"
                    /\ ex[c].polls = MaxPolls
                    /\ Len(ex[c].hist) = MaxPolls

C3_Witness ==
    \E c \in callers :
        /\ Done(c)
        /\ Outcome(c) = "Timeout"
        /\ ex[c].polls = MaxPolls
        /\ QuietBefore(c, MaxPolls + 1)

\* C4: if the submit request fails in the transport or its response has no
\* operation id, the execution has ended in Error with exactly one submit
\* request and no poll request; a submit request is never sent twice.
C4_FailedSubmissionNotRetried ==
    \A c \in callers :
        /\ ex[c].submits <= 1
        /\ (SubmitAnswered(c)
            /\ (ex[c].submitResp.exc \/ NoOperationId(ex[c].submitResp)))
           => /\ Done(c)
              /\ Outcome(c) = "Error"
              /\ ex[c].returned = "False"
              /\ ex[c].submits = 1
              /\ ex[c].polls = 0

C4_Witness ==
    \E c \in callers :
        /\ Done(c)
        /\ ~ex[c].submitResp.exc
        /\ ex[c].submitResp.hasList
        /\ ex[c].submitResp.list # <<>>
        /\ ex[c].submitResp.list[1].id = ""
        /\ ex[c].submits = 1

\* The poll response holds no result entry for the operation id
NoEntryFor(resp, id) ==
    /\ ~resp.exc
    /\ \A j \in 1..Len(resp.list) : resp.list[j].id # id

\* C5: a poll response with no result entry whose id is the operation id (an
\* empty list, or only entries for other ids) is not-yet-known: the engine
\* does not terminate on it, it only uses up one of the 10 attempts.
C5_NoEntryForIdIsNotYetKnown ==
    \A c \in callers :
        (Len(ex[c].hist) >= 1 /\ NoEntryFor(ex[c].lastPoll, ex[c].opId))
        => IF Len(ex[c].hist) < MaxPolls
           THEN ex[c].pc = "sleeping" /\ ex[c].i = Len(ex[c].hist)
           ELSE Outcome(c) = "Timeout"

BadCommand(cmd) ==
    /\ cmd.cls = "DeviceStatusCommand"
    /\ \/ Len(cmd.header) # 8
       \/ cmd.position < 0
       \/ cmd.position > 45
       \/ cmd.position + Len(cmd.value) > 46

\* C8: when building the status list fails (a command with a header whose
\* length is not 8, a position out of range or a value overflow, or an empty
\* command list given to execute_commands), the failure is raised with no
\* submit and no poll request sent.
C8_ConstructionErrorBeforeRequests ==
    \A c \in callers :
        /\ (ex[c].pc # "idle"
            /\ \/ ex[c].entry = "execute_commands" /\ ex[c].op.commands = <<>>
               \/ \E j \in 1..Len(ex[c].op.commands) : BadCommand(ex[c].op.commands[j]))
           => /\ Done(c)
              /\ ex[c].returned = "raise"
              /\ ex[c].submits = 0
              /\ ex[c].polls = 0
        /\ ex[c].returned = "raise" => (ex[c].submits = 0 /\ ex[c].polls = 0)

C8_Witness ==
    \E c \in callers :
        /\ Done(c)
        /\ ex[c].returned = "raise"
        /\ ex[c].entry = "execute_operation"
        /\ Len(ex[c].op.commands) = 2
        /\ ~BadCommand(ex[c].op.commands[1])
        /\ ex[c].op.commands[2].position = 45
        /\ ex[c].submits = 0

-----------------------------------------------------------------------------
(* Properties of the codec *)

\* (header, position, value) is valid for build_payload
ValidField(header, position, value) ==
    /\ Len(header) = 8
    /\ 0 <= position
    /\ position <= 45
    /\ position + Len(value) <= 46

\* C9: for every header of length 8, every position in 0..45 and every
\* value with position + len(value) <= 46, the payload is built, is 54
\* characters long, and reading len(value) characters at `position` of its
\* field area returns exactly `value`.
C9_EncodeDecodeRoundTrip ==
    ValidField(cHeader, cPosition, cValue)
    => /\ cpc # "input" => (cResult.ok /\ Len(cResult.payload) = 54)
       /\ cpc = "decoded" => cDecoded = cValue

C9_Witness ==
    /\ cpc = "decoded"
    /\ cPosition = 44
    /\ cValue = <<"F", "1">>
    /\ cDecoded = <<"F", "1">>

\* C10: build_payload fails exactly when len(header) # 8, or position < 0 or
\* position >= 46, or position + len(value) > 46.
C10_BuildPayloadFailsExactlyWhen ==
    cpc # "input"
    => (~cResult.ok
        <=> \/ Len(cHeader) # 8
            \/ cPosition < 0
            \/ cPosition >= 46
            \/ cPosition + Len(cValue) > 46)

C10_Witness ==
    /\ cpc = "encoded"
    /\ ~cResult.ok
    /\ Len(cHeader) = 8
    /\ cPosition = 46
    /\ cValue = <<>>


\* C11: every payload build_payload returns is exactly 54 characters long,
\* starts with the header unchanged, and has '0' at every field-area
\* character outside [position, position + len(value)).
C11_PayloadLayout ==
    (cpc # "input" /\ cResult.ok)
    => /\ Len(cResult.payload) = 54
       /\ SubSeq(cResult.payload, 1, 8) = cHeader
       /\ \A i \in 0..45 :
            (i < cPosition \/ i >= cPosition + Len(cValue))
            => cResult.payload[8 + i + 1] = "0"

C11_Witness ==
    /\ cpc = "encoded"
    /\ cResult.ok
    /\ cPosition = 45
    /\ cValue = <<"F">>
    /\ cResult.payload[54] = "F"
    /\ cResult.payload[53] = "0"


-----------------------------------------------------------------------------
(* Properties of the F3 decoder *)

F3Decoded == dMode = "f3" /\ dpc = "done"

\* The state a command's payload must decode to: `member` in the command's
\* own field, OFF (code "00") in the other four
ExpectedF3(src, member) ==
    [present |-> TRUE,
     operating_mode |-> IF src = "ChangeModeCommand" THEN member ELSE "OFF",
     power |-> IF src = "_PowerStateCommand" THEN member ELSE "OFF",
     humidification |-> IF src = "HumidificationCommand" THEN member ELSE "OFF",
     child_lock |-> IF src = "ChildLockCommand" THEN member ELSE "OFF",
     led_brightness |-> IF src = "LEDBrightnessCommand" THEN member ELSE "OFF"]

C13_LengthErrorUnlessExactly54 ==
    (F3Decoded /\ Len(f3In.lead \o f3In.core \o f3In.trail) # 54)
    => (~f3Out.ok /\ f3Out.error = "length")

\* C13 as amended: F3Property.from_hex fails with the length error exactly
\* when the input without its leading and trailing whitespace is not 54
\* characters long.
C13_LengthErrorOnStrippedLength ==
    F3Decoded
    => ((~f3Out.ok /\ f3Out.error = "length") <=> Len(f3In.core) # 54)

C13_Witness ==
    /\ F3Decoded
    /\ f3In.lead = <<" ">>
    /\ f3In.trail = <<"\n", " ">>
    /\ Len(f3In.core) = 54
    /\ f3Out.ok

-----------------------------------------------------------------------------
(* Properties of the property decoder *)

ApiDecoded == dMode = "api" /\ dpc = "done"

ApiStatus == IF apiIn.hasStatus THEN apiIn.status ELSE <<>>

\* The entry's status code is `code`, compared case-insensitively
HasCode(entry, lower, upper) == entry.statusCode \in {lower, upper}

Recognised(entry) ==
    HasCode(entry, "f1", "F1") \/ HasCode(entry, "f2", "F2") \/ HasCode(entry, "f3", "F3")

\* Characters a blob needs to hold every field read from it: 30 bytes for f1,
\* 19 bytes for f2, 54 characters for f3
NeededLength(entry) ==
    IF HasCode(entry, "f1", "F1") THEN 60
    ELSE IF HasCode(entry, "f2", "F2") THEN 38
    ELSE 54

\* The binary value of a recognised entry is missing, too short or not hex
Malformed(entry) ==
    /\ Recognised(entry)
    /\ \/ ~entry.hasCode
       \/ Len(entry.code) < NeededLength(entry)
       \/ \E j \in 1..Len(entry.code) :
             ~IsHex(entry.code[j]) /\ entry.code[j] \notin Whitespace

\* C14: the decode fails whenever the binary value of a recognised status
\* code is missing, of the wrong length or not valid hex; no snapshot is
\* returned for such a response.
C14_MalformedBlobFailsDecode ==
    (ApiDecoded /\ \E j \in 1..Len(ApiStatus) : Malformed(ApiStatus[j]))
    => ~apiOut.ok

\* C15: in a successfully decoded snapshot each of f1, f2, f3 is present
\* exactly when an entry with that status code, in either case, is in the
\* status list; an empty or missing status list decodes to all three absent.
C15_PresentIffCodeAppears ==
    ApiDecoded
    => /\ apiOut.ok =>
            /\ apiOut.f1.present
                 <=> \E j \in 1..Len(ApiStatus) : HasCode(ApiStatus[j], "f1", "F1")
            /\ apiOut.f2.present
                 <=> \E j \in 1..Len(ApiStatus) : HasCode(ApiStatus[j], "f2", "F2")
            /\ apiOut.f3.present
                 <=> \E j \in 1..Len(ApiStatus) : HasCode(ApiStatus[j], "f3", "F3")
       /\ ApiStatus = <<>> =>
            /\ apiOut.ok
            /\ ~apiOut.f1.present /\ ~apiOut.f2.present /\ ~apiOut.f3.present

C15_Witness ==
    /\ ApiDecoded
    /\ apiOut.ok
    /\ Len(ApiStatus) = 2
    /\ ApiStatus[1].statusCode = "F1"
    /\ ApiStatus[2].statusCode = "f3"
    /\ apiOut.f1.present /\ apiOut.f3.present /\ ~apiOut.f2.present

RECURSIVE RecognisedOnly(_)
RecognisedOnly(list) ==
    IF list = <<>> THEN <<>>
    ELSE IF Recognised(Head(list))
    THEN <<Head(list)>> \o RecognisedOnly(Tail(list))
    ELSE RecognisedOnly(Tail(list))

\* C16: entries whose status code is none of f1, f2, f3 are ignored: the
\* decode of a response equals the decode of the same response with those
\* entries removed, and a response holding only such entries decodes.
C16_UnknownCodesIgnored ==
    ApiDecoded
    => /\ apiOut = from_api_response(
                      [hasStatus |-> TRUE, status |-> RecognisedOnly(ApiStatus)])
       /\ (\A j \in 1..Len(ApiStatus) : ~Recognised(ApiStatus[j])) => apiOut.ok

C16_Witness ==
    /\ ApiDecoded
    /\ apiOut.ok
    /\ Len(ApiStatus) = 2
    /\ ApiStatus[1].statusCode = "E1"
    /\ ApiStatus[2].statusCode = "F2"
    /\ apiOut.f2.present
    /\ apiOut.f2.air_quality = "VERY_HIGH"

-----------------------------------------------------------------------------
(* Properties of the command / operation model *)

\* The 54-character payload with `header` and `code` at field position 18
PayloadAt18(header, code) ==
    [i \in 1..54 |->
        IF i <= 8 THEN header[i]
        ELSE IF i = 27 THEN code[1]
        ELSE IF i = 28 THEN code[2]
        ELSE "0"]

ExpectedPowerRequest(state) ==
    << [statusCode |-> "F3", valueType |-> "valueBinary",
        code |-> PayloadAt18(<<"0","0","0","2","0","0","0","0">>,
                             IF state = "ON" THEN <<"F","F">> ELSE <<"0","0">>)],
       [statusCode |-> "80", valueType |-> "valueSingle",
        code |-> IF state = "ON" THEN <<"3","0">> ELSE <<"3","1">>] >>

\* C17: PowerOperation(state) serialises to exactly two payloads in this
\* order: the F3 payload with header "00020000" and "FF" (ON) or "00" (OFF)
\* at field position 18, then the "80" single value "30" (ON) or "31" (OFF);
\* both travel in the one submit request of the execution.
C17_PowerOperationTwoPayloads ==
    \A c \in callers : \A state \in {"ON", "OFF"} :
        (ex[c].pc # "idle" /\ ex[c].op = PowerOperation(state))
        => /\ ex[c].returned # "raise"
           /\ ex[c].submits = 1
           /\ ex[c].request = ExpectedPowerRequest(state)

C17_Witness ==
    \E c \in callers :
        /\ ex[c].op = PowerOperation("OFF")
        /\ Done(c)
        /\ Outcome(c) = "Success"
        /\ ex[c].request[2].code = <<"3","1">>

\* C18: an OperationList holds at least one command: building it from no
\* commands fails (nothing is sent), so the status list of an OperationList
\* that was sent is never empty, whereas RefreshStateOperation is sent with
\* the empty status list and no error.
C18_OperationListNonEmpty ==
    \A c \in callers :
        ex[c].pc # "idle"
        => /\ (ex[c].op.kind = "OperationList" /\ ex[c].op.commands = <<>>)
              => (ex[c].returned = "raise" /\ ex[c].submits = 0)
           /\ (ex[c].op.kind = "OperationList" /\ ex[c].submits >= 1)
              => Len(ex[c].request) >= 1
           /\ ex[c].op.kind = "RefreshStateOperation"
              => (ex[c].submits = 1 /\ ex[c].request = <<>>
                  /\ ex[c].returned # "raise")

C18_Witness ==
    \E c \in callers :
        /\ ex[c].entry = "execute_commands"
        /\ ex[c].op.kind = "OperationList"
        /\ ex[c].op.commands = <<>>
        /\ ex[c].returned = "raise"

\* C19: the status list of commands [c1..cn] has length n with ci's status
\* payload at place i, and the submit request carries it in that order.
C19_StatusListInConstructionOrder ==
    \A c \in callers :
        (ex[c].submits >= 1 /\ ex[c].op.kind \in {"OperationList", "Command"})
        => /\ Len(ex[c].request) = Len(ex[c].op.commands)
           /\ \A j \in 1..Len(ex[c].op.commands) :
                ex[c].request[j] = get_status_payload(ex[c].op.commands[j]).payload

C19_Witness ==
    \E c \in callers :
        /\ ex[c].submits = 1
        /\ ex[c].op.kind = "OperationList"
        /\ Len(ex[c].op.commands) = 2
        /\ ex[c].op.commands[1].cls = "DeviceStatusCommand"
        /\ ex[c].op.commands[2].cls = "SingleCommand"
        /\ ex[c].request[1].statusCode = "F3"
        /\ ex[c].request[2].statusCode = "80"

-----------------------------------------------------------------------------
(* Properties of the threshold decoder *)

\* C20: QualityLevel.parse returns, for every integer v: VERY_HIGH for
\* v > 75, HIGH for 56..75, MEDIUM for 36..55, LOW for 16..35, CLEAN
\* otherwise; 15,16,35,36,55,56,75,76 give CLEAN, LOW, LOW, MEDIUM, MEDIUM,
\* HIGH, HIGH, VERY_HIGH.
C20_QualityLevelBuckets ==
    (dMode = "quality" /\ dpc = "done")
    => /\ qOut \in {"CLEAN", "LOW", "MEDIUM", "HIGH", "VERY_HIGH"}
       /\ qOut = "VERY_HIGH" <=> qIn > 75
       /\ qOut = "HIGH" <=> (56 <= qIn /\ qIn <= 75)
       /\ qOut = "MEDIUM" <=> (36 <= qIn /\ qIn < 56)
       /\ qOut = "LOW" <=> (16 <= qIn /\ qIn < 36)
       /\ qOut = "CLEAN" <=> qIn < 16
       /\ qIn \in {15} => qOut = "CLEAN"
       /\ qIn \in {16, 35} => qOut = "LOW"
       /\ qIn \in {36, 55} => qOut = "MEDIUM"
       /\ qIn \in {56, 75} => qOut = "HIGH"
       /\ qIn \in {76} => qOut = "VERY_HIGH"

C20_Witness ==
    /\ dMode = "quality"
    /\ dpc = "done"
    /\ qIn = 75
    /\ qOut = "HIGH"


-----------------------------------------------------------------------------
(* Properties of the execution engine: order of requests, termination *)

\* Requests of caller c that were sent and not yet answered
Outstanding(c) ==
    (IF ex[c].pc = "submitting" THEN 1 ELSE 0)
    + (ex[c].polls - Len(ex[c].hist))

\* The first entry of a status response is terminal by lines 126-131
TerminalEntry(result) ==
    \/ result.status = "error"
    \/ result.status \in {"success", "unmatch"} /\ result.errorCode = Null

\* C21: within one execute_operation call at most one request (submit or
\* poll) is outstanding at any time, and poll attempt k+1 is sent only after
\* the response to attempt k was received and found non-terminal.
C21_RequestsStrictlySequential ==
    \A c \in callers :
        /\ Outstanding(c) \in {0, 1}
        /\ ex[c].submits \in {0, 1}
        /\ ex[c].polls >= 1 => ex[c].pc # "submitting"
        /\ \A k \in 1..(ex[c].polls - 1) :
              /\ k <= Len(ex[c].hist)
              /\ ex[c].hist[k] = "nonterminal"

C21_Witness ==
    \E c \in callers :
        /\ ex[c].pc = "polling"
        /\ ex[c].polls = 3
        /\ Len(ex[c].hist) = 2
        /\ Outstanding(c) = 1

\* C23: a transport exception of the status request on attempt k ends
\* execute_operation at once with a failure: no further status request is
\* sent and the remaining 10-k attempts are not used.
C23_PollExceptionEndsExecution ==
    \A c \in callers :
        /\ \A k \in 1..Len(ex[c].hist) :
              ex[c].hist[k] = "exception" => k = Len(ex[c].hist)
        /\ (ex[c].hist # <<>> /\ ex[c].hist[Len(ex[c].hist)] = "exception")
           => /\ ex[c].pc = "done"
              /\ ex[c].returned = "False"
              /\ Outcome(c) = "Error"
              /\ ex[c].polls = Len(ex[c].hist)

C23_Witness ==
    \E c \in callers :
        /\ Len(ex[c].hist) = 3
        /\ ex[c].hist[3] = "exception"
        /\ ex[c].polls = 3
        /\ Done(c)
        /\ ex[c].returned = "False"

\* The last status response read by caller c holds an entry that is neither
\* an error nor a success without error code
LastEntryOther(c) ==
    /\ ex[c].hist # <<>>
    /\ ~ex[c].lastPoll.exc
    /\ HasResultList(ex[c].lastPoll)
    /\ ~TerminalEntry(ex[c].lastPoll.list[1])

\* C24: a result entry that is neither status "error" nor status
\* "success"/"unmatch" without error code is not terminal: polling goes on
\* after it, an execution only ends in Success on an entry with status
\* "success"/"unmatch" and no error code, and after the tenth such response
\* the outcome is Timeout.
C24_OtherEntriesNotTerminal ==
    \A c \in callers :
        /\ (LastEntryOther(c) /\ Len(ex[c].hist) < MaxPolls)
           => ex[c].pc \in {"sleeping", "polling"}
        /\ (LastEntryOther(c) /\ Len(ex[c].hist) = MaxPolls)
           => (ex[c].pc = "done" /\ Outcome(c) = "Timeout"
               /\ ex[c].returned = "False")
        /\ Outcome(c) = "Success"
           => /\ ex[c].lastPoll.list[1].status \in {"success", "unmatch"}
              /\ ex[c].lastPoll.list[1].errorCode = Null

C24_Witness ==
    \E c \in callers :
        /\ Done(c)
        /\ Outcome(c) = "Timeout"
        /\ Len(ex[c].hist) = MaxPolls
        /\ LastEntryOther(c)
        /\ ex[c].lastPoll.list[1].status = "success"
        /\ ex[c].lastPoll.list[1].errorCode = "E1"

\* C26: an execution that sends requests sends exactly one control request,
\* before every status request; no status request is sent unless the control
\* response carried an operation id, and every status request of the
\* execution is keyed by that id.
C26_OneSubmitThenPollsWithSameId ==
    \A c \in callers :
        /\ (ex[c].pc # "idle" /\ ex[c].returned # "raise") => ex[c].submits = 1
        /\ ex[c].returned = "raise" => (ex[c].submits = 0 /\ ex[c].polls = 0)
        /\ ex[c].pc = "submitting" => ex[c].polls = 0
        /\ Len(ex[c].pollIds) = ex[c].polls
        /\ ex[c].polls >= 1
           => /\ ex[c].submits = 1
              /\ SubmitHasId(ex[c].submitResp)
              /\ \A k \in 1..ex[c].polls :
                    ex[c].pollIds[k] = ex[c].submitResp.list[1].id

C26_Witness ==
    \E c \in callers :
        /\ ex[c].polls = 3
        /\ ex[c].submitResp.list[1].id = "op2"
        /\ ex[c].pollIds = <<"op2", "op2", "op2">>
        /\ ex[c].lastPoll.list # <<>>
        /\ ex[c].lastPoll.list[1].id = "op1"


\* The budget of one execution and the shape of its end
WithinBudget(c) ==
    /\ ex[c].submits <= 1
    /\ ex[c].polls <= MaxPolls
    /\ ex[c].pc = "done" <=> ex[c].returned \in {"True", "False", "raise"}
    /\ ex[c].pc = "done"
       <=> Outcome(c) \in {"Success", "Error", "Timeout", "ConstructionError"}
    /\ ex[c].returned = "True" <=> Outcome(c) = "Success"

\* C25: every execute_operation call whose requests are all answered ends in
\* exactly one terminal outcome after at most 1 control request and at most
\* 10 status requests, whatever the responses and failures are; once the
\* outcome is reached nothing more is sent and the outcome stays.
C25_TerminatesWithinBudget ==
    /\ [](\A c \in callers : WithinBudget(c))
    /\ [][\A c \in callers : ex[c].pc = "done" => ex'[c] = ex[c]]_vars
    /\ \A c \in {1} : (ex[c].pc # "idle") ~> (ex[c].pc = "done")

C25_Witness ==
    \E c \in callers :
        /\ Done(c)
        /\ ex[c].submits = 1
        /\ ex[c].polls = MaxPolls
        /\ Outcome(c) = "Success"
        /\ ex[c].returned = "True"


-----------------------------------------------------------------------------
(* Properties of concurrent executions *)

\* Caller c has sent its control request and has not returned
InFlight(c) == ex[c].submits = 1 /\ ex[c].pc \in {"submitting", "sleeping", "polling"}

\* C22: the engine does not serialise concurrent executions for one device:
\* whatever the other caller's execution is doing, a caller can start its
\* own execution and an execution under way can send its next status
\* request; so both executions can be under way at once, their control and
\* status requests interleaved.
C22_ConcurrentExecutionsNotSerialised ==
    \A c \in callers :
        /\ ex[c].pc = "idle" => ENABLED CallExecuteOperation(c)
        /\ ex[c].pc = "sleeping" => ENABLED PollSend(c)
        /\ ex[c].pc = "polling" => ENABLED PollResponse(c)

C22_Witness ==
    /\ callers = {1, 2}
    /\ InFlight(1) /\ InFlight(2)
    /\ ex[1].polls = 2 /\ ex[2].polls = 1
    /\ ex[1].pc = "sleeping" /\ ex[2].pc = "polling"
    /\ ex[1].opId = ex[2].opId


-----------------------------------------------------------------------------
(* Repeated status codes *)

\* Indices of the entries of the status list with the given code
EntriesOf(lower, upper) ==
    {j \in 1..Len(ApiStatus) : HasCode(ApiStatus[j], lower, upper)}

LastOf(lower, upper) ==
    CHOOSE j \in EntriesOf(lower, upper) :
        \A k \in EntriesOf(lower, upper) : k <= j

\* What the codec routine of the entry's status code makes of its value
EntryDecode(entry) ==
    IF HasCode(entry, "f1", "F1") THEN F1_from_hex(CodeOf(entry))
    ELSE IF HasCode(entry, "f2", "F2") THEN F2_from_hex(CodeOf(entry))
    ELSE F3_from_hex(CodeOf(entry))

-----------------------------------------------------------------------------
(* Properties of the coordinator *)

CommandDone == co.call.op = "async_execute_command" /\ co.call.pc = "done"

Discovered(device_id) == \E i \in 1..Len(co.devices) : co.devices[i] = device_id

\* C28: async_execute_command requests a data refresh exactly when the
\* execution returned success; for a device id that is not among the
\* discovered devices it returns False without handing anything to
\* execute_operation and without requesting a refresh.
C28_RefreshIffSuccess ==
    /\ co.call.refreshes \in {0, 1}
    /\ co.call.execCalls \in {0, 1}
    /\ co.call.pc = "executing" => co.call.refreshes = 0
    /\ CommandDone =>
         /\ co.call.refreshes = 1 <=> co.call.execResult = "True"
         /\ co.call.returned = "True" <=> co.call.execResult = "True"
         /\ co.call.execCalls = 1 <=> Discovered(co.call.device_id)
         /\ ~Discovered(co.call.device_id)
              => /\ co.call.returned = "False"
                 /\ co.call.execCalls = 0
                 /\ co.call.refreshes = 0

C28_Witness ==
    /\ CommandDone
    /\ Len(co.devices) = 2
    /\ co.call.device_id = co.devices[2]
    /\ co.call.execCalls = 1
    /\ co.call.execResult = "False"
    /\ co.call.refreshes = 0
    /\ co.call.returned = "False"

UpdateDone == co.call.op = "_async_update_data" /\ co.call.pc = "done"

\* C29: an update cycle that got past setup and discovery does not fail: its
\* result has one entry per discovered device; a device whose fetch or
\* decode failed is available=False with properties None, every other device
\* is available=True with the properties decoded from its response of this
\* cycle, and is_device_available tells the same.
C29_PerDeviceFailuresIsolated ==
    /\ co.call.returned = "UpdateFailed" => (co.call.i = 1 /\ ~co.call.discovered)
    /\ (UpdateDone /\ co.call.returned = "data") =>
         /\ co.data = co.call.device_data
         /\ \A b \in BoxIds :
              /\ co.call.device_data[b].present <=> Discovered(b)
              /\ Discovered(b) =>
                   LET fetch == co.call.fetched[b]
                       entry == co.call.device_data[b]
                       failed == fetch.exc \/ ~from_api_response(fetch.response).ok
                   IN  /\ failed => (~entry.available /\ entry.properties = NoSnapshot)
                       /\ ~failed =>
                            /\ entry.available
                            /\ entry.properties = from_api_response(fetch.response)
                       /\ is_device_available(co.data, b) <=> ~failed
              /\ ~Discovered(b) => ~is_device_available(co.data, b)

C29_Witness ==
    /\ UpdateDone
    /\ co.call.returned = "data"
    /\ Len(co.devices) = 2
    /\ co.call.fetched[co.devices[1]].exc
    /\ ~co.data[co.devices[1]].available
    /\ co.data[co.devices[2]].available
    /\ co.data[co.devices[2]].properties.f1.temperature = 23

-----------------------------------------------------------------------------
(* Properties of the auth server *)

\* The last reply turned a callback down before the login
CallbackTurnedDown(reply) ==
    /\ reply.handler = "callback"
    /\ reply.error \in {"Invalid session ID", "Invalid callback URL format",
                        "No authorization code"}

\* C30: the status endpoint gives out a session's terminal app id only while
\* that session's step is 'success'; a step is 'success' only when both the
\* login with the code and the terminal registration of that session ended
\* without error; a callback with an unknown session id, a wrongly formatted
\* URL or no code changes no session's step.
C30_TerminalIdOnlyAfterSuccess ==
    /\ [](/\ (au.reply.handler = "status" /\ au.reply.terminal_id # Null)
               => /\ au.reply.session_id \in SessionIds
                  /\ au.sessions[au.reply.session_id].exists
                  /\ au.sessions[au.reply.session_id].step = "success"
                  /\ au.reply.terminal_id
                       = au.sessions[au.reply.session_id].terminal_app_id
          /\ \A s \in SessionIds :
               au.sessions[s].step = "success"
               => (au.sessions[s].login = "ok" /\ au.sessions[s].register = "ok"))
    /\ [][CallbackTurnedDown(au'.reply)
            => \A s \in SessionIds : au'.sessions[s].step = au.sessions[s].step]_vars

C30_Witness ==
    /\ au.reply.handler = "status"
    /\ au.reply.session_id = "s2"
    /\ au.reply.terminal_id = "t1"
    /\ au.sessions["s2"].step = "success"
    /\ au.sessions["s1"].exists
    /\ au.sessions["s1"].step = "error"
    /\ au.sessions["s1"].login = "ok"

====
